---- MODULE Spec2Model ----
(***************************************************************************)
(* Model of nitrado_api.NitradoAPI (src/build/lib/nitrado_api/nitrado_api.py):*)
(* the request helper _make_request with its retry on HTTP 429, manage_list *)
(* (read-modify-write of a membership list) and validate_file_syntax.       *)
(*                                                                         *)
(* Python strings are sequences of one-character strings, so that          *)
(* str.split, str.join, int() and str.lower are computed, not assumed.      *)
(* One step of a caller is what runs between two suspension points of the   *)
(* coroutine: the HTTP round trip of line 21 and the sleep of line 27.      *)
(***************************************************************************)
EXTENDS Integers, Sequences, FiniteSets, TLC

\* ---------------------------------------------------------------- bounds
\* Number of distinct member identifiers in play.
NumMembers == 2
\* The remote service answers 429 at most this many times in a behaviour
\* (the recursion of line 28 itself is unbounded).
MaxRateLimited == 2
\* asyncio.sleep(d) suspends for at least d seconds: d .. d + MaxOversleep.
MaxOversleep == 1

\* ------------------------------------------------------- Python strings
CR == "\r"

Pool == << <<"a">>, <<"b", "b">>, <<"c">>, <<"d", "d">> >>
Members == { Pool[i] : i \in 1..NumMembers }

ToSet(seq) == { seq[i] : i \in DOMAIN seq }

\* str.split(sep) with a one-character separator: "" splits to [""]
RECURSIVE SplitAcc(_, _, _, _)
SplitAcc(s, sep, i, cur) ==
    IF i > Len(s) THEN << cur >>
    ELSE IF s[i] = sep THEN << cur >> \o SplitAcc(s, sep, i + 1, << >>)
    ELSE SplitAcc(s, sep, i + 1, Append(cur, s[i]))

Split(s, sep) == SplitAcc(s, sep, 1, << >>)

\* sep.join(parts)
RECURSIVE Join(_, _)
Join(sep, parts) ==
    IF parts = << >> THEN << >>
    ELSE IF Len(parts) = 1 THEN parts[1]
    ELSE parts[1] \o << sep >> \o Join(sep, Tail(parts))

\* The orders in which iterating a Python set may yield its elements.
Orders(S) == { p \in [1..Cardinality(S) -> S] : ToSet(p) = S }

Last(seq) == seq[Len(seq)]

LowerChar(ch) ==
    CASE ch = "X" -> "x" [] ch = "M" -> "m" [] ch = "L" -> "l"
      [] ch = "J" -> "j" [] ch = "S" -> "s" [] ch = "O" -> "o" [] ch = "N" -> "n"
      [] ch = "T" -> "t"
      [] OTHER -> ch

UpperChar(ch) ==
    CASE ch = "x" -> "X" [] ch = "m" -> "M" [] ch = "l" -> "L"
      [] ch = "j" -> "J" [] ch = "s" -> "S" [] ch = "o" -> "O" [] ch = "n" -> "N"
      [] ch = "t" -> "T" [] ch = "a" -> "A" [] ch = "p" -> "P"
      [] OTHER -> ch

Lower(s) == [i \in DOMAIN s |-> LowerChar(s[i])]
Upper(s) == [i \in DOMAIN s |-> UpperChar(s[i])]

\* int(x) of line 25: x is the header's text, or the default 5 of .get
Digits == <<"0", "1", "2", "3", "4", "5", "6", "7", "8", "9">>
IsDigit(ch) == \E d \in 1..10 : Digits[d] = ch
DigitVal(ch) == (CHOOSE d \in 1..10 : Digits[d] = ch) - 1

RECURSIVE DigitsValue(_, _)
DigitsValue(s, acc) ==
    IF s = << >> THEN acc ELSE DigitsValue(Tail(s), 10 * acc + DigitVal(Head(s)))

RECURSIVE LStrip(_)
LStrip(s) == IF s # << >> /\ Head(s) = " " THEN LStrip(Tail(s)) ELSE s

RECURSIVE RStrip(_)
RStrip(s) ==
    IF s # << >> /\ Last(s) = " " THEN RStrip(SubSeq(s, 1, Len(s) - 1)) ELSE s

IntOk(n) == [ok |-> TRUE, val |-> n]
IntValueError == [ok |-> FALSE, val |-> 0]

PyIntStr(s) ==
    LET t == RStrip(LStrip(s))
        signed == t # << >> /\ Head(t) \in {"+", "-"}
        body == IF signed THEN Tail(t) ELSE t
    IN  IF body = << >> \/ \E i \in DOMAIN body : ~IsDigit(body[i])
        THEN IntValueError
        ELSE IntOk(IF signed /\ Head(t) = "-"
                   THEN 0 - DigitsValue(body, 0) ELSE DigitsValue(body, 0))

\* ------------------------------------------------------------ the data
Callers == {1, 2}

ListTypes == {"whitelist", "bans", "priority"}
\* list_type and action as a caller may supply them
ListTypeInputs == ListTypes \cup {"admins"}
ActionInputs == {"add", "remove", "purge"}

BASE_URL == "https://api.nitrado.net"
ServiceId == "4711"
SettingsEndpoint == <<"/services/", ServiceId, "/gameservers/settings">>
DetailsEndpoint == <<"/services/", ServiceId, "/gameservers">>

\* file_path arguments of validate_file_syntax
FilePaths ==
    { <<"c", "/", "a", ".", "j", "s", "o", "n">>,
      <<"a", ".", "X", "M", "L">>,
      <<"a", ".", "t", "x", "t">>,
      <<"c", ".", "d", "/", "a">> }

\* Python values: None, a parsed JSON body, a str
None == [tag |-> "None"]
Json(body) == [tag |-> "json", body |-> body]
Message(msg, fmt, detail) ==
    [tag |-> "str", msg |-> msg, fmt |-> fmt, detail |-> detail]

Returned(v) == [kind |-> "return", value |-> v]
Raised(type, msg) == [kind |-> "raise", type |-> type, msg |-> msg]
Pending == [kind |-> "pending"]

\* JSON bodies of the remote API
EmptyObj == [kind |-> "empty"]
AckBody == [kind |-> "ack"]
SettingsBody(general) == [kind |-> "settings", general |-> general]
DetailsBody(gameserver) == [kind |-> "details", gameserver |-> gameserver]

\* bool(x) of a _make_request result: None and {} are falsy
Truthy(v) == v.tag = "json" /\ v.body.kind # "empty"

NoPayload == [category |-> "", key |-> "", value |-> << >>]

\* the arguments of one _make_request call: method, endpoint, **kwargs
Request(method, endpoint, json) ==
    [method |-> method, endpoint |-> endpoint, json |-> json]

NoRequest == Request("", << >>, NoPayload)

\* Retry-After of a 429 answer: absent, or the header's text.
NoHeader == [present |-> FALSE, text |-> << >>]
Header(text) == [present |-> TRUE, text |-> text]
RetryAfterHeaders ==
    { NoHeader, Header(<<"2">>), Header(<<"-", "1">>),
      Header(<<"s", "o", "o", "n">>), Header(<<"1", ".", "5">>) }

NoFrame ==
    [orig |-> NoRequest, rq |-> NoRequest, nsent |-> 0, n429 |-> 0,
     header |-> NoHeader, retry_after |-> 0, slept |-> 0]

NoCall ==
    [made |-> FALSE, nsent |-> 0, n429 |-> 0, status |-> "",
     header |-> NoHeader, ret |-> Pending]

\* what session.request puts on the wire: lines 18 and 21
BuildRequest(rq) ==
    [method |-> rq.method,
     url |-> << BASE_URL >> \o rq.endpoint,
     auth |-> "Bearer",
     json |-> rq.json]

NoWire == BuildRequest(NoRequest)

\* The arguments the recursive call of line 28 passes on.
Reissue(rq) == Request(rq.method, rq.endpoint, rq.json)

\* ------------------------------------------------------ the remote side
\* A 200 answer applies a settings POST to the service's settings.
ServerApply(settings, w) ==
    IF /\ w.method = "POST"
       /\ w.url = << BASE_URL >> \o SettingsEndpoint
       /\ w.json.category = "general"
       /\ w.json.key \in ListTypes
    THEN [settings EXCEPT ![w.json.key] = w.json.value]
    ELSE settings

\* The JSON bodies a 200 answer to w may carry. An empty list may be left
\* out of the settings (it is what the default of line 70 stands for).
ServerBodies(settings, w) ==
    IF w.method = "POST" THEN {AckBody}
    ELSE IF w.url = << BASE_URL >> \o SettingsEndpoint
    THEN { SettingsBody([l \in D |-> settings[l]]) :
             D \in { ListTypes, { l \in ListTypes : settings[l] # << >> } } }
         \cup {EmptyObj}
    ELSE { DetailsBody(g) : g \in {"absent", "no_credentials", "ftp"} }
         \cup {EmptyObj}

\* Statuses other than 200 and 429.
ErrorStatuses == {"404", "500"}

\* What aiohttp raises on a transport-level failure: connection refused
\* and DNS failure (ClientConnectorError), a socket timeout
\* (ServerTimeoutError), and the session's total timeout, which aiohttp
\* raises as asyncio.TimeoutError.
TransportErrors ==
    {"ClientConnectorError", "ServerTimeoutError", "TimeoutError"}

\* except aiohttp.ClientError of line 32: the classes it catches
IsClientError(e) == e \in {"ClientConnectorError", "ServerTimeoutError"}

\* the default of response.headers.get("Retry-After", 5), line 25
DefaultRetryAfter == 5

\* int(response.headers.get("Retry-After", 5)) of line 25
RetryAfter(h) ==
    IF h.present THEN PyIntStr(h.text) ELSE IntOk(DefaultRetryAfter)

Max(a, b) == IF a >= b THEN a ELSE b

\* ---------------------------------------------------------- manage_list
ValidListTypeAny(list_type) == list_type # ""

\* line 57
ValidListType(list_type) == list_type \in {"whitelist", "bans", "priority"}

\* lines 74 and 76
ValidAction(action) == action \in {"add", "remove"}

\* lines 65-71: the chain of .get with its defaults
CurrentList(body, list_type) ==
    IF body.kind = "settings" /\ list_type \in DOMAIN body.general
    THEN body.general[list_type]
    ELSE << >>

\* line 72
CurrentMembers(current_list) == ToSet(Split(current_list, CR))

UpdatedMembersSwapped(action, current_members, members) ==
    IF action = "add" THEN current_members \cup members
    ELSE members \ current_members

\* lines 74-77
UpdatedMembers(action, current_members, members) ==
    IF action = "add" THEN current_members \cup members
    ELSE current_members \ members

\* line 81: the set is joined in the order its iteration yields
ListData(list_type, order) ==
    [category |-> "general", key |-> list_type, value |-> Join(CR, order)]

\* ------------------------------------------------- validate_file_syntax
\* line 151
LocalPath(file_path) ==
    <<"/", "t", "m", "p", "/">> \o Last(Split(file_path, "/"))

\* line 154
FileExtension(local_path) == Lower(Last(Split(local_path, ".")))

LocalPaths == { LocalPath(p) : p \in FilePaths }

\* what a scratch file holds: nothing yet written, or the remote content
RemoteContents == {"xml_ok", "json_ok", "garbage"}

\* lines 88-91 over line 40: the FTP credentials of a details answer
FtpDetails(v) ==
    IF Truthy(v) /\ v.body.kind = "details" /\ v.body.gameserver = "ftp"
    THEN "ftp" ELSE "falsy"

\* lines 155-166: what the try statement leaves to return, before finally
TryBody(ext, file) ==
    IF ext = <<"x", "m", "l">>
    THEN IF file = "xml_ok"
         THEN Returned(Message("valid", <<"X", "M", "L">>, ""))
         ELSE Returned(Message("syntax_error", Upper(ext),
                               IF file = "absent" THEN "FileNotFoundError"
                               ELSE "ParseError"))
    ELSE IF ext = <<"j", "s", "o", "n">>
    THEN IF file = "json_ok"
         THEN Returned(Message("valid", <<"J", "S", "O", "N">>, ""))
         ELSE Returned(Message("syntax_error", Upper(ext),
                               IF file = "absent" THEN "FileNotFoundError"
                               ELSE "JSONDecodeError"))
    ELSE Returned(None)

\* lines 167-170: os.remove of a missing file raises, and the exception of
\* a finally clause replaces the pending return
Finally(files, local_path, pending) ==
    IF files[local_path] = "absent"
    THEN [result |-> Raised("FileNotFoundError", "os.remove"), files |-> files]
    ELSE [result |-> pending,
          files |-> [files EXCEPT ![local_path] = "absent"]]

\* lines 154-170
Validate(files, local_path) ==
    Finally(files, local_path,
            TryBody(FileExtension(local_path), files[local_path]))

\* ------------------------------------------------------------ the state
VARIABLES
    remote,     \* the service's settings.general: list type -> string
    fs,         \* the scratch files under /tmp: local path -> content
    args,       \* each caller's operation and arguments
    pc,         \* each caller's suspension point
    cont,       \* which await of the operation _make_request returns to
    frame,      \* the running _make_request call: its arguments and counts
    wire,       \* the last request the caller put on the wire
    netcount,   \* requests the caller's operation has issued so far
    posted,     \* settings writes the caller's operation has issued so far
    fetched,    \* the settings fetch of line 60: absent, or current_list
    lastCall,   \* the caller's last completed _make_request call
    limited,    \* 429 answers the service has given so far
    result,     \* what the operation returned or raised
    remote0,    \* history: the settings before any call
    overlapped  \* history: a call began while another was under way

vars ==
    << remote, fs, args, pc, cont, frame, wire, netcount, posted, fetched,
       lastCall, limited, result, remote0, overlapped >>

\* -------------------------------------------------------- the operations
NewFrame(rq) ==
    [orig |-> rq, rq |-> rq, nsent |-> 0, n429 |-> 0,
     header |-> NoHeader, retry_after |-> 0, slept |-> 0]

\* The operation ends: it returns or raises res.
Finish(c, res) ==
    /\ pc' = [pc EXCEPT ![c] = "done"]
    /\ result' = [result EXCEPT ![c] = res]
    /\ frame' = [frame EXCEPT ![c] = NoFrame]
    /\ cont' = [cont EXCEPT ![c] = ""]

\* The operation awaits a new _make_request call, returning to await k.
Await(c, rq, k) ==
    /\ pc' = [pc EXCEPT ![c] = "request"]
    /\ frame' = [frame EXCEPT ![c] = NewFrame(rq)]
    /\ cont' = [cont EXCEPT ![c] = k]
    /\ UNCHANGED result

\* The caller's operation is under way: begun and not yet ended.
Busy(d) == pc[d] \in {"request", "sleep"}

\* manage_list, lines 56-60: up to the await of the settings GET
CallManageList(c) ==
    /\ pc[c] = "idle"
    /\ args[c].op = "manage_list"
    /\ IF ~ValidListType(args[c].list_type)
       THEN Finish(c, Raised("ValueError", "Invalid list type"))
       ELSE Await(c, Request("GET", SettingsEndpoint, NoPayload), "ml_get")
    /\ overlapped' = (overlapped \/ \E d \in Callers \ {c} : Busy(d))
    /\ UNCHANGED << remote, fs, args, wire, netcount, posted, fetched,
                    lastCall, limited, remote0 >>

\* manage_list, lines 61-83: from the settings GET's result to the await of
\* the settings POST
AfterSettings(c, current_settings) ==
    LET a == args[c]
        current_list == CurrentList(current_settings.body, a.list_type)
    IN  IF ~Truthy(current_settings)
        THEN /\ fetched' = [fetched EXCEPT
                              ![c] = [state |-> "absent", list |-> << >>]]
             /\ Finish(c, Returned(None))
        ELSE /\ fetched' = [fetched EXCEPT
                              ![c] = [state |-> "got", list |-> current_list]]
             /\ IF ~ValidAction(a.action)
                THEN Finish(c, Raised("ValueError", "Invalid action"))
                ELSE \E order \in Orders(UpdatedMembers(a.action,
                                   CurrentMembers(current_list), a.members)) :
                         Await(c, Request("POST", SettingsEndpoint,
                                          ListData(a.list_type, order)),
                               "ml_post")

\* validate_file_syntax, lines 151-152, into download_file (113),
\* get_ftp_credentials (88) and get_server_details (38-39): up to the await
\* of the details GET
CallValidate(c) ==
    /\ pc[c] = "idle"
    /\ args[c].op = "validate_file_syntax"
    /\ Await(c, Request("GET", DetailsEndpoint, NoPayload), "gsd")
    /\ overlapped' = (overlapped \/ \E d \in Callers \ {c} : Busy(d))
    /\ UNCHANGED << remote, fs, args, wire, netcount, posted, fetched,
                    lastCall, limited, remote0 >>

\* From the details GET's result to the end of validate_file_syntax: lines
\* 40, 89-91, 114-120 and 154-170. ftplib blocks, so nothing else runs in
\* between. The FTP session may fail to connect (before the scratch file is
\* opened), fail to retrieve (after open(local_path, "wb") created it), or
\* write the remote content.
AfterDetails(c, response) ==
    LET local_path == LocalPath(args[c].file_path)
    IN  IF FtpDetails(response) = "falsy"
        THEN LET v == Validate(fs, local_path)
             IN  fs' = v.files /\ Finish(c, v.result)
        ELSE \/ /\ UNCHANGED fs
                /\ Finish(c, Raised("OSError", "ftp.connect"))
             \/ /\ fs' = [fs EXCEPT ![local_path] = "empty"]
                /\ Finish(c, Raised("error_perm", "RETR"))
             \/ \E content \in RemoteContents :
                    LET v == Validate([fs EXCEPT ![local_path] = content],
                                      local_path)
                    IN  fs' = v.files /\ Finish(c, v.result)

\* _make_request returns v (lines 23, 31, 34) and the awaiting operation
\* runs on to its next await or to its end.
Resume(c, v) ==
    CASE cont[c] = "ml_get" -> AfterSettings(c, v) /\ UNCHANGED fs
      [] cont[c] = "ml_post" ->
            Finish(c, Returned(v)) /\ UNCHANGED << fs, fetched >>
      [] cont[c] = "gsd" -> AfterDetails(c, v) /\ UNCHANGED fetched

\* An exception leaves _make_request: no caller up the stack catches it
\* (download_file is called outside the try of validate_file_syntax).
Propagate(c, type, msg) ==
    Finish(c, Raised(type, msg)) /\ UNCHANGED << fs, fetched >>

\* line 21: the request of the running call goes out
Send(c) ==
    LET w == BuildRequest(frame[c].rq)
    IN  /\ wire' = [wire EXCEPT ![c] = w]
        /\ netcount' = [netcount EXCEPT ![c] = @ + 1]
        /\ posted' = [posted EXCEPT
                        ![c] = IF w.method = "POST" THEN @ + 1 ELSE @]

\* The running _make_request call ends: what it issued and was answered.
Completed(c, n429, status, header, ret) ==
    lastCall' = [lastCall EXCEPT
                   ![c] = [made |-> TRUE, nsent |-> frame[c].nsent + 1,
                           n429 |-> n429, status |-> status,
                           header |-> header, ret |-> ret]]

\* lines 21-23: the request is answered 200
Respond200(c) ==
    /\ pc[c] = "request"
    /\ Send(c)
    /\ \E body \in ServerBodies(remote, BuildRequest(frame[c].rq)) :
          /\ Completed(c, frame[c].n429, "200", NoHeader,
                       Returned(Json(body)))
          /\ Resume(c, Json(body))
    /\ remote' = ServerApply(remote, BuildRequest(frame[c].rq))
    /\ UNCHANGED << args, limited, remote0, overlapped >>

\* lines 29-31: any status other than 200 and 429
RespondError(c) ==
    /\ pc[c] = "request"
    /\ Send(c)
    /\ \E status \in ErrorStatuses :
          Completed(c, frame[c].n429, status, NoHeader, Returned(None))
    /\ Resume(c, None)
    /\ UNCHANGED << remote, args, limited, remote0, overlapped >>

\* lines 32-34: the transport fails; only aiohttp.ClientError is caught
TransportFailure(c) ==
    /\ pc[c] = "request"
    /\ Send(c)
    /\ \E e \in TransportErrors :
          IF IsClientError(e)
          THEN /\ Completed(c, frame[c].n429, e, NoHeader, Returned(None))
               /\ Resume(c, None)
          ELSE /\ Completed(c, frame[c].n429, e, NoHeader,
                            Raised(e, "transport"))
               /\ Propagate(c, e, "transport")
    /\ UNCHANGED << remote, args, limited, remote0, overlapped >>

\* lines 24-27: the request is answered 429; int() of line 25 raises
\* ValueError on a text that is no integer, and nothing catches it
Respond429(c) ==
    /\ pc[c] = "request"
    /\ limited < MaxRateLimited
    /\ limited' = limited + 1
    /\ Send(c)
    /\ \E h \in RetryAfterHeaders :
          /\ IF RetryAfter(h).ok
             THEN /\ pc' = [pc EXCEPT ![c] = "sleep"]
                  /\ frame' = [frame EXCEPT
                                 ![c].nsent = @ + 1, ![c].n429 = @ + 1,
                                 ![c].header = h,
                                 ![c].retry_after = RetryAfter(h).val,
                                 ![c].slept = 0]
                  /\ UNCHANGED << cont, result, fs, fetched, lastCall >>
             ELSE /\ Completed(c, frame[c].n429 + 1, "429", h,
                               Raised("ValueError", "int"))
                  /\ Propagate(c, "ValueError", "int")
    /\ UNCHANGED << remote, args, remote0, overlapped >>

\* lines 27-28: the sleep ends after at least retry_after seconds (at once
\* when retry_after is not positive) and the call recurses
WakeUp(c) ==
    /\ pc[c] = "sleep"
    /\ \E extra \in 0..MaxOversleep :
          frame' = [frame EXCEPT
                      ![c].slept = Max(frame[c].retry_after, 0) + extra,
                      ![c].rq = Reissue(frame[c].rq)]
    /\ pc' = [pc EXCEPT ![c] = "request"]
    /\ UNCHANGED << remote, fs, args, cont, wire, netcount, posted, fetched,
                    lastCall, limited, result, remote0, overlapped >>

\* ------------------------------------------------------ the behaviours
ManageArgs ==
    [op : {"manage_list"}, action : ActionInputs,
     list_type : ListTypeInputs, members : SUBSET Members]

ValidateArgs == [op : {"validate_file_syntax"}, file_path : FilePaths]

NoArgs == [op |-> "none"]

\* The settings before any call: one list holds any member set, joined in
\* any order (the empty set as the empty string); the others hold every
\* member.
FullList == Join(CR, [i \in 1..NumMembers |-> Pool[i]])

InitRemotes ==
    { [l \in ListTypes |-> IF l = v THEN Join(CR, o) ELSE FullList] :
        v \in ListTypes, o \in UNION { Orders(A) : A \in SUBSET Members } }

InitCommon ==
    /\ remote \in InitRemotes
    /\ remote0 = remote
    /\ overlapped = FALSE
    /\ fs = [p \in LocalPaths |-> "absent"]
    /\ cont = [c \in Callers |-> ""]
    /\ frame = [c \in Callers |-> NoFrame]
    /\ wire = [c \in Callers |-> NoWire]
    /\ netcount = [c \in Callers |-> 0]
    /\ posted = [c \in Callers |-> 0]
    /\ fetched = [c \in Callers |-> [state |-> "none", list |-> << >>]]
    /\ lastCall = [c \in Callers |-> NoCall]
    /\ limited = 0
    /\ result = [c \in Callers |-> Pending]

\* One caller runs one operation with any arguments.
Init ==
    /\ InitCommon
    /\ \E a \in ManageArgs \cup ValidateArgs :
          args = [c \in Callers |-> IF c = 1 THEN a ELSE NoArgs]
    /\ pc = [c \in Callers |-> IF c = 1 THEN "idle" ELSE "off"]

Next ==
    \E c \in Callers :
        \/ CallManageList(c)
        \/ CallValidate(c)
        \/ Respond200(c)
        \/ RespondError(c)
        \/ TransportFailure(c)
        \/ Respond429(c)
        \/ WakeUp(c)

Spec == Init /\ [][Next]_vars

\* Two callers add disjoint, non-empty member sets to the same list. The
\* callers are interchangeable: the first is the one that adds Pool[1].
InitConc ==
    /\ InitCommon
    /\ \E l \in ListTypes, B1 \in SUBSET Members, B2 \in SUBSET Members :
          /\ Pool[1] \in B1 /\ B2 # {} /\ B1 \cap B2 = {}
          /\ args = [c \in Callers |->
                       [op |-> "manage_list", action |-> "add",
                        list_type |-> l,
                        members |-> IF c = 1 THEN B1 ELSE B2]]
    /\ pc = [c \in Callers |-> "idle"]

NextConc ==
    \E c \in Callers :
        \/ CallManageList(c)
        \/ Respond200(c)
        \/ RespondError(c)
        \/ TransportFailure(c)
        \/ Respond429(c)
        \/ WakeUp(c)

SpecConc == InitConc /\ [][NextConc]_vars

\* ----------------------------------------------------------- the claims
\* The member set a remote list value stands for: the empty string is the
\* empty list, any other value the set of its carriage-return-split parts.
MembersOf(value) == IF value = << >> THEN {} ELSE ToSet(Split(value, CR))

ManageCallers == { c \in Callers : args[c].op = "manage_list" }
ValidateCallers == { c \in Callers : args[c].op = "validate_file_syntax" }

\* The caller's settings POST was answered 200: the write was applied.
Wrote(c) ==
    /\ pc[c] = "done" /\ posted[c] > 0
    /\ result[c].kind = "return" /\ result[c].value.tag = "json"

\* C1: manage_list with action add, on a list whose current members are A,
\* writes back a value whose member set is exactly A \cup B.
C1_AddWritesUnion ==
    \A c \in ManageCallers :
        (args[c].action = "add" /\ posted[c] > 0) =>
            MembersOf(wire[c].json.value)
                = MembersOf(remote0[args[c].list_type]) \cup args[c].members

\* The scope of C1's failure: on a non-empty current list the written
\* member set is A \cup B.
C1_HoldsOnNonEmptyList ==
    \A c \in ManageCallers :
        ( /\ args[c].action = "add" /\ posted[c] > 0
          /\ remote0[args[c].list_type] # << >> ) =>
            MembersOf(wire[c].json.value)
                = MembersOf(remote0[args[c].list_type]) \cup args[c].members

\* C2: manage_list with action remove, on a list whose current members are
\* A, writes back a value whose member set is exactly A \ B, and an applied
\* write leaves the remote list at A \ B.
C2_RemoveWritesDifference ==
    \A c \in ManageCallers :
        (args[c].action = "remove" /\ posted[c] > 0) =>
            /\ wire[c].method = "POST"
            /\ wire[c].json.key = args[c].list_type
            /\ MembersOf(wire[c].json.value)
                 = MembersOf(remote0[args[c].list_type]) \ args[c].members
            /\ Wrote(c) =>
                 MembersOf(remote[args[c].list_type])
                   = MembersOf(remote0[args[c].list_type]) \ args[c].members

\* C2, its case: a remove of every member of a non-empty list was applied.
C2_Witness ==
    \E c \in ManageCallers :
        /\ args[c].action = "remove" /\ Wrote(c)
        /\ MembersOf(remote0[args[c].list_type]) # {}
        /\ MembersOf(remote0[args[c].list_type]) \subseteq args[c].members
        /\ remote[args[c].list_type] = << >>

\* C3: with a valid list type and an action outside {add, remove},
\* manage_list fails with the invalid-argument error before any request.
C3_InvalidActionBeforeNetwork ==
    \A c \in ManageCallers :
        ( /\ pc[c] # "idle"
          /\ args[c].list_type \in ListTypes
          /\ args[c].action \notin {"add", "remove"} ) =>
            /\ pc[c] = "done"
            /\ result[c] = Raised("ValueError", "Invalid action")
            /\ netcount[c] = 0

\* C4: with a list type outside {whitelist, bans, priority}, whatever the
\* action, manage_list fails with the invalid-argument error before any
\* request.
C4_InvalidListTypeBeforeNetwork ==
    \A c \in ManageCallers :
        (pc[c] # "idle" /\ args[c].list_type \notin ListTypes) =>
            /\ pc[c] = "done"
            /\ result[c] = Raised("ValueError", "Invalid list type")
            /\ netcount[c] = 0
            /\ wire[c] = NoWire

\* C4, its case: a call with an invalid list type and an invalid action
\* has ended.
C4_Witness ==
    \E c \in ManageCallers :
        /\ pc[c] = "done"
        /\ args[c].list_type \notin ListTypes
        /\ args[c].action = "purge"

\* C5: every 429 answer is followed by one re-issue of the identical
\* request after a suspension of at least its Retry-After seconds, so a
\* call that was answered 429 k times has issued k + 1 requests when it
\* ends, and ends with the outcome of the last one.
C5_RetryOnEvery429 ==
    \A c \in Callers :
        /\ (pc[c] = "request" /\ frame[c].n429 > 0) =>
              /\ frame[c].rq = frame[c].orig
              /\ frame[c].slept >= frame[c].retry_after
        /\ (pc[c] \in {"request", "sleep"}) => frame[c].nsent = frame[c].n429
        /\ lastCall[c].made =>
              /\ lastCall[c].nsent = lastCall[c].n429 + 1
              /\ lastCall[c].status # "429"
              /\ (lastCall[c].status = "200")
                   <=> ( /\ lastCall[c].ret.kind = "return"
                         /\ lastCall[c].ret.value.tag = "json" )

\* The scope of C5's failure: a call that did not end on a 429 answer
\* (whose Retry-After int() of line 25 rejected) retried as C5 says.
C5_HoldsForIntegerHeaders ==
    \A c \in Callers :
        /\ (pc[c] = "request" /\ frame[c].n429 > 0) =>
              /\ frame[c].rq = frame[c].orig
              /\ frame[c].slept >= frame[c].retry_after
        /\ (lastCall[c].made /\ lastCall[c].status # "429") =>
              lastCall[c].nsent = lastCall[c].n429 + 1

\* C6: a 429 answer whose Retry-After is absent or no integer makes
\* _make_request back off 5 seconds and retry; it never makes it raise.
C6_DefaultBackoff ==
    \A c \in Callers :
        /\ ( /\ pc[c] = "sleep"
             /\ (~frame[c].header.present
                   \/ ~PyIntStr(frame[c].header.text).ok) ) =>
              frame[c].retry_after = 5
        /\ lastCall[c].made => lastCall[c].status # "429"

\* C7: a status other than 200 and 429, and a transport failure, make
\* _make_request return None: it does not raise and does not retry.
C7_FailureReturnsNone ==
    \A c \in Callers :
        ( /\ lastCall[c].made
          /\ lastCall[c].status \in ErrorStatuses \cup TransportErrors ) =>
            /\ lastCall[c].ret = Returned(None)
            /\ lastCall[c].nsent = lastCall[c].n429 + 1

\* C8: when the list type or the action is invalid, or the settings fetch
\* returned an absent result, manage_list issues no settings POST, the
\* remote settings stay as they were, and the call ends with an absent
\* result or the invalid-argument error.
C8_NoWriteOnFailedPrecondition ==
    \A c \in ManageCallers :
        ( /\ pc[c] # "idle"
          /\ \/ args[c].list_type \notin ListTypes
             \/ args[c].action \notin {"add", "remove"}
             \/ fetched[c].state = "absent" ) =>
            /\ posted[c] = 0
            /\ remote = remote0
            /\ pc[c] = "done" =>
                 result[c] \in { Returned(None),
                                 Raised("ValueError", "Invalid list type"),
                                 Raised("ValueError", "Invalid action") }

\* The scope of C8's failure: no settings POST goes out and the remote
\* settings stay as they were; only the way the call ends differs.
C8_HoldsForTheWrite ==
    \A c \in ManageCallers :
        ( /\ pc[c] # "idle"
          /\ \/ args[c].list_type \notin ListTypes
             \/ args[c].action \notin {"add", "remove"}
             \/ fetched[c].state = "absent" ) =>
            posted[c] = 0 /\ remote = remote0

\* download_file raised: the transport or the FTP session failed.
DownloadRaised(c) ==
    /\ result[c].kind = "raise"
    /\ result[c].type \in {"TimeoutError", "ValueError", "OSError",
                           "error_perm"}

\* C9: validate_file_syntax returns normally and leaves no scratch file,
\* on every exit path past the download: valid content, malformed content,
\* an unsupported extension, and no file written for want of credentials.
C9_ReturnsAndCleansUp ==
    \A c \in ValidateCallers :
        (pc[c] = "done" /\ ~DownloadRaised(c)) =>
            /\ result[c].kind = "return"
            /\ fs[LocalPath(args[c].file_path)] = "absent"

\* Both adds were applied, to the list named by the first caller.
BothWrote == \A c \in Callers : Wrote(c)

AllAdded ==
    MembersOf(remote[args[1].list_type])
      = MembersOf(remote0[args[1].list_type])
          \cup args[1].members \cup args[2].members

\* C10: two adds of disjoint member sets to the same list, run one after
\* the other, leave the list at A \cup B1 \cup B2 (and some interleaving
\* of them does not).
C10_SequentialAddsAll == (BothWrote /\ ~overlapped) => AllAdded

\* The interleaving of C10: this fails in a state where both adds were
\* applied concurrently and one caller's members are missing from the list.
C10_NoLostUpdate ==
    (BothWrote /\ overlapped) =>
        args[1].members \cup args[2].members
            \subseteq MembersOf(remote[args[1].list_type])

====
